---- MODULE Spec2Model ----
(***************************************************************************)
(* Model of the catalog-backend persistence core: the entity row codec,    *)
(* the entity store (Database) with its optimistic-concurrency update      *)
(* protocol, the entity merger and the refresh loop (DatabaseManager).     *)
(*                                                                         *)
(* Storage engine: statements are atomic, a transaction reads committed    *)
(* rows plus its own uncommitted write, and a write to a row (or to a      *)
(* unique key) that another open transaction has written waits until that  *)
(* transaction ends (read-committed isolation with row locks).             *)
(***************************************************************************)
EXTENDS Integers, Sequences, FiniteSets, TLC

\* ---------------------------------------------------------------- bounds
MaxUuid == 3        \* entity ids the uuid generator hands out in a run
MaxGen == 3         \* no update is started that takes a generation beyond
MaxLocUuid == 3     \* location ids the uuid generator hands out in a run
MaxItems == 2       \* items a reader yields for one location
MaxCalls == 3      \* calls the observer of a race records

\* ------------------------------------------------------- JS / SQL values
NULL == "null"                      \* SQL NULL, JS undefined of a string
EmptyObj == [k \in {} |-> ""]       \* the JS object {}
Has(o, k) == k \in DOMAIN o
Without(o, K) == [k \in (DOMAIN o) \ K |-> o[k]]
\* { ...a, ...b }
Spread(a, b) ==
  [k \in (DOMAIN a) \cup (DOMAIN b) |-> IF k \in DOMAIN b THEN b[k] ELSE a[k]]

\* JSON.stringify / JSON.parse of a plain object; a text column holds either
\* NULL or the serialized text.
NullBlob == [isNull |-> TRUE, json |-> EmptyObj]
JSONstringify(o) == [isNull |-> FALSE, json |-> o]
JSONparse(b) == b.json

\* request.entity.metadata ?? {}
MetaOf(entity) == IF Has(entity, "metadata") THEN entity.metadata ELSE EmptyObj
\* JS truthiness of the destructured metadata fields
TruthyStr(m, k) == Has(m, k) /\ m[k] # ""
TruthyNum(m, k) == Has(m, k) /\ m[k] # 0
\* x || null
OrNull(m, k) == IF TruthyStr(m, k) THEN m[k] ELSE NULL
\* x || null and x || undefined of a string that is present
Or(x, y) == IF x = "" THEN y ELSE x

\* ------------------------------------------------------ entity row codec
\* a serializer that leaves the store-managed keys in the blob
serializeMetadataWhole(entity) ==
  IF ~Has(entity, "metadata") THEN NullBlob
  ELSE JSONstringify(entity.metadata)

serializeMetadata(entity) ==
  IF ~Has(entity, "metadata") THEN NullBlob
  ELSE JSONstringify(Without(entity.metadata, {"uid", "etag", "generation"}))

serializeSpec(entity) ==
  IF ~Has(entity, "spec") THEN NullBlob ELSE JSONstringify(entity.spec)

\* etag is the fresh random token of this write
entityRequestToDb(request, etag) ==
  [ id          |-> "",
    location_id |-> Or(request.locationId, NULL),
    etag        |-> etag,
    generation  |-> 1,
    api_version |-> request.entity.apiVersion,
    kind        |-> request.entity.kind,
    name        |-> OrNull(MetaOf(request.entity), "name"),
    namespace   |-> OrNull(MetaOf(request.entity), "namespace"),
    metadata    |-> serializeMetadata(request.entity),
    spec        |-> serializeSpec(request.entity) ]

entityDbToResponse(row) ==
  LET base == [ uid |-> row.id, etag |-> row.etag,
                generation |-> row.generation ]
      meta == IF row.metadata.isNull THEN base
              ELSE Spread(base, JSONparse(row.metadata))
      core == [ apiVersion |-> row.api_version, kind |-> row.kind,
                metadata |-> meta ]
  IN  [ locationId |-> Or(row.location_id, NULL),
        entity |-> IF row.spec.isNull THEN core
                   ELSE Spread(core, [spec |-> JSONparse(row.spec)]) ]

\* ---------------------------------------------------------- entity merger
\* whether a value is an object rather than a string or a number, told by
\* its printed form: an object prints as a record or as the empty tuple
isPlainObject(value) == SubSeq(ToString(value), 1, 1) \in {"[", "<"}
\* JS truthiness of any value: '', 0 and null are falsy, every object is truthy
Truthy(value) == ToString(value) \notin {ToString(""), ToString(0), ToString(NULL)}

\* lodash.merge descends wherever the source value is a plain object: it
\* merges into the value the object holds when that is an object too, and
\* otherwise puts a copy of the source value in its place
RECURSIVE lodashMerge(_, _)
lodashMerge(object, source) ==
  [k \in (DOMAIN object) \cup (DOMAIN source) |->
     IF k \notin DOMAIN source THEN object[k]
     ELSE IF k \in DOMAIN object /\ isPlainObject(source[k])
             /\ isPlainObject(object[k])
          THEN lodashMerge(object[k], source[k])
          ELSE source[k]]

\* base.metadata?.x reads from this: the metadata object, or nothing
OptMeta(base) ==
  IF Has(base, "metadata") /\ isPlainObject(base.metadata)
  THEN base.metadata ELSE EmptyObj

\* a merge in which the stored annotations are laid over the new ones
mergeEntitiesBaseWins(base, added) ==
  LET bm == OptMeta(base)
      pinned == [k \in {"uid", "generation"} \cap DOMAIN bm |-> bm[k]]
      result == lodashMerge(added, [metadata |-> pinned])
  IN  IF Has(bm, "annotations") /\ Truthy(bm.annotations)
      THEN lodashMerge(result, [metadata |-> [annotations |-> bm.annotations]])
      ELSE result

mergeEntities(base, added) ==
  LET bm == OptMeta(base)
      pinned == [k \in {"uid", "generation"} \cap DOMAIN bm |-> bm[k]]
      result == lodashMerge(added, [metadata |-> pinned])
  IN  IF Has(bm, "annotations") /\ Truthy(bm.annotations)
      THEN lodashMerge([metadata |-> [annotations |-> bm.annotations]], result)
      ELSE result

\* the arguments as the call leaves them: added was cloned before anything
\* was merged into it; the object lodash.merge merges into holds the
\* annotations object of base itself, and where the new entity has an
\* annotations object too the merge writes into that of base
addedAfterMerge(base, added) == added
baseAfterMerge(base, added) ==
  LET bm == OptMeta(base)
      merged == mergeEntities(base, added)
  IN  IF /\ Has(bm, "annotations") /\ isPlainObject(bm.annotations)
         /\ Has(merged.metadata, "annotations")
         /\ Has(OptMeta(added), "annotations")
         /\ isPlainObject(OptMeta(added).annotations)
      THEN [base EXCEPT !.metadata.annotations = merged.metadata.annotations]
      ELSE base

\* ------------------------------------------------------------ the tables
VARIABLES
  entities,     \* committed rows of table entities
  uuidCount,    \* entity ids handed out so far by uuidv4
  ctx,          \* per caller: its open transaction and position in the call
  last,         \* outcome of the most recently returned entity call
  calls,        \* observer: the returned entity calls, in order of return
  keepCalls,    \* observer: whether calls is being recorded in this run
  locations,    \* rows of table locations
  locUuidCount, \* location ids handed out so far by uuidv4
  lastLoc,      \* the most recently returned location call
  log,          \* table location_update_log, in insertion order
  refresh,      \* the refreshLocations run: position and local variables
  fn            \* a call of a pure function: its arguments and its result

vars == << entities, uuidCount, ctx, last, calls, keepCalls, locations, locUuidCount, lastLoc,
           log, refresh, fn >>

Clients == {"c1", "c2"}
Refresher == "r"
Writer == "c1"     \* the caller in runs that have one
Procs == Clients \cup {Refresher}

\* uuidv4(): an id no row has had before
UidPool == << "u1", "u2", "u3", "u4", "u5", "u6", "u7", "u8" >>
LocIdPool == << "l1", "l2", "l3", "l4", "l5", "l6", "l7", "l8" >>

NoRow ==
  [ id |-> NULL, location_id |-> NULL, etag |-> NULL, generation |-> 0,
    api_version |-> NULL, kind |-> NULL, name |-> NULL, namespace |-> NULL,
    metadata |-> NullBlob, spec |-> NullBlob ]
NoResponse == [ locationId |-> NULL, entity |-> EmptyObj ]
NoRequest == [ locationId |-> NULL, entity |-> EmptyObj ]
NoOld == [ id |-> NULL, generation |-> 0 ]

IdleRefresh ==
  [ pc |-> "idle", database |-> "none", locations |-> << >>, li |-> 0,
    read |-> << >>, op |-> "none", request |-> NoRequest,
    descriptor |-> EmptyObj,
    \* the error the try block of an item has thrown, and what it makes of
    \* the item
    error |-> [ message |-> NULL, entityName |-> NULL, result |-> "none" ] ]
NoFn == [ op |-> "none", base |-> EmptyObj, added |-> EmptyObj,
          result |-> EmptyObj, done |-> FALSE,
          request |-> NoRequest, row |-> NoRow,
          baseAfter |-> EmptyObj, addedAfter |-> EmptyObj ]

\* an open call: its position, the row it has written or is going to write
\* (newRow), the row its SELECT by name found (old), the metadata of the
\* request while the WHERE clause of a statement to come reads it, and its
\* response
IdleCtx ==
  [ pc |-> "idle", op |-> "none", strategy |-> 0, request |-> NoRequest,
    row |-> NoRow, old |-> NoOld, meta |-> EmptyObj,
    response |-> NoResponse ]
NoCall ==
  [ proc |-> "none", op |-> "none", strategy |-> 0, status |-> "none" ]

\* ------------------------------------------------- storage engine (knex)
\* the uncommitted write of p's open transaction, if it has made one
HasWrite(p) == ctx[p].pc \in {"readBack", "commit"}
\* rows p's statements read: committed rows, under p's own write
View(p) ==
  IF HasWrite(p)
  THEN {r \in entities : r.id # ctx[p].row.id} \cup {ctx[p].row}
  ELSE entities
\* a row another open transaction has written is locked until it ends
LockedByOther(p, id) ==
  \E q \in Procs \ {p} : HasWrite(q) /\ ctx[q].row.id = id
\* unique index entities(name, namespace), checked for row `new`
KeyOf(r) == << r.name, r.namespace >>
KeyWaits(p, new) ==
  \/ \E q \in Procs \ {p} :
       HasWrite(q) /\ ctx[q].row.id # new.id /\ KeyOf(ctx[q].row) = KeyOf(new)
  \/ \E r \in entities :
       r.id # new.id /\ KeyOf(r) = KeyOf(new) /\ LockedByOther(p, r.id)
\* a unique index for which two NULL namespaces are never the same key
KeyTakenNullsDistinct(p, new) ==
  \E r \in entities :
     r.id # new.id /\ KeyOf(r) = KeyOf(new) /\ new.namespace # NULL

KeyTaken(p, new) ==
  \E r \in entities : r.id # new.id /\ KeyOf(r) = KeyOf(new)

\* ------------------------------------------------ Database.updateEntity
\* which of the four branches the request takes (0: neither uid nor name)
Strategy(request) ==
  LET m == MetaOf(request.entity)
  IN  IF TruthyStr(m, "uid") /\ TruthyNum(m, "generation") THEN 1
      ELSE IF TruthyStr(m, "uid") THEN 2
      ELSE IF TruthyStr(m, "name") /\ TruthyNum(m, "generation") THEN 3
      ELSE IF TruthyStr(m, "name") THEN 4
      ELSE 0

\* rows selected by .where({ name, namespace: namespace || null })
ByName(rows, m) ==
  {r \in rows : r.name = m.name /\ r.namespace = OrNull(m, "namespace")}

\* a WHERE clause that leaves the generation out
MatchesAnyGeneration(rows, s, m, old) ==
  CASE s = 1 -> {r \in rows : r.id = m.uid}
    [] s = 2 -> {r \in rows : r.id = m.uid}
    [] s = 3 -> ByName(rows, m)
    [] s = 4 -> {r \in rows : r.id = old.id}

\* a name-only UPDATE on the id it has read, whatever the generation now
MatchesRowRead(rows, s, m, old) ==
  CASE s = 1 -> {r \in rows : r.id = m.uid /\ r.generation = m.generation}
    [] s = 2 -> {r \in rows : r.id = m.uid}
    [] s = 3 -> {r \in ByName(rows, m) : r.generation = m.generation}
    [] s = 4 -> {r \in rows : r.id = old.id}

\* rows the UPDATE's WHERE clause selects
Matches(rows, s, m, old) ==
  CASE s = 1 -> {r \in rows : r.id = m.uid /\ r.generation = m.generation}
    [] s = 2 -> {r \in rows : r.id = m.uid}
    [] s = 3 -> {r \in ByName(rows, m) : r.generation = m.generation}
    [] s = 4 -> {r \in rows : r.id = old.id /\ r.generation = old.generation}

\* a SET clause that writes the generation it was given, without a step
UpdatedSameGeneration(s, r, newRow, m, old) ==
  CASE s = 1 -> [newRow EXCEPT !.id = r.id, !.generation = m.generation]
    [] s = 2 -> [newRow EXCEPT !.id = r.id, !.generation = r.generation]
    [] s = 3 -> [newRow EXCEPT !.id = r.id, !.generation = m.generation,
                               !.name = r.name, !.namespace = r.namespace]
    [] s = 4 -> [newRow EXCEPT !.id = r.id, !.generation = old.generation,
                               !.name = r.name, !.namespace = r.namespace]

\* a SET clause that leaves name and namespace alone in every strategy
UpdatedKeepsKey(s, r, newRow, m, old) ==
  [newRow EXCEPT !.id = r.id,
                 !.generation = CASE s \in {1, 3} -> m.generation + 1
                                  [] s = 2 -> r.generation + 1
                                  [] s = 4 -> old.generation + 1,
                 !.name = r.name, !.namespace = r.namespace]

\* row r after the UPDATE's SET clause (undefined columns are left alone)
Updated(s, r, newRow, m, old) ==
  CASE s = 1 -> [newRow EXCEPT !.id = r.id, !.generation = m.generation + 1]
    [] s = 2 -> [newRow EXCEPT !.id = r.id, !.generation = r.generation + 1]
    [] s = 3 -> [newRow EXCEPT !.id = r.id, !.generation = m.generation + 1,
                               !.name = r.name, !.namespace = r.namespace]
    [] s = 4 -> [newRow EXCEPT !.id = r.id, !.generation = old.generation + 1,
                               !.name = r.name, !.namespace = r.namespace]

\* rows of the SELECT that follows the INSERT or the UPDATE of the open
\* call c (an UPDATE by uid and generation has none)
ReadBack(rows, c) ==
  CASE c.op = "addEntity" -> {r \in rows : r.id = c.row.id}
    [] c.strategy = 2 -> {r \in rows : r.id = c.meta.uid}
    [] c.strategy = 3 ->
         {r \in ByName(rows, c.meta) : r.generation = c.meta.generation + 1}
    [] c.strategy = 4 -> {r \in rows : r.id = c.old.id
                                       /\ r.generation = c.old.generation + 1}

\* the UPDATE has to wait for another transaction's row or key lock
UpdateWaits(p, s, newRow, m, old) ==
  \E r \in Matches(View(p), s, m, old) :
     \/ LockedByOther(p, r.id)
     \/ KeyWaits(p, Updated(s, r, newRow, m, old))

\* the UPDATE of strategy s, run by p: what it throws, the response when
\* the call returns without a further statement (status "ok"), or the row
\* written when the SELECT of it is still to come (status "written")
UpdateOutcome(p, s, newRow, m, old) ==
  LET hit == Matches(View(p), s, m, old)
  IN  IF hit = {}
      THEN [ status |-> "Conflict", row |-> NoRow, response |-> NoResponse,
             message |-> IF s = 4 THEN "Failed to update"
                         ELSE "No entity matching" ]
      ELSE
        LET r == CHOOSE x \in hit : TRUE
            new == Updated(s, r, newRow, m, old)
        IN  IF KeyTaken(p, new)
            THEN [ status |-> "Error", row |-> NoRow,
                   response |-> NoResponse,
                   message |-> "SQLITE_CONSTRAINT: UNIQUE" ]
            ELSE IF s = 1
            THEN [ status |-> "ok", row |-> new,
                   response |-> entityDbToResponse(newRow),
                   message |-> NULL ]
            ELSE [ status |-> "written", row |-> new,
                   response |-> NoResponse, message |-> NULL ]

\* ------------------------------------------------------- uuidv4, etags
\* entityRequestToDb draws the etag of a call from uuidv4: a value that no
\* other call draws. The token is named after the caller and the row version
\* the call sets out to write: two open calls are of different callers, and
\* a caller that sets out for the same row version again has had its earlier
\* call fail, and with it the token, which nothing holds any more. The rows
\* a run starts from were written by a caller before the run, "c0".
uuidv4Etag(p, id, generation) ==
  p \o "#" \o id \o "#" \o ToString(generation)

\* the etag an addEntity of p draws in this state
EtagsOfAdd(p) == { uuidv4Etag(p, UidPool[uuidCount + 1], 1) }

\* the etag an updateEntity of p draws for this request in this state
EtagsOfUpdate(p, request) ==
  LET s == Strategy(request)
      m == MetaOf(request.entity)
      hit == CASE s = 0 -> {}
               [] s = 4 -> ByName(View(p), m)
               [] OTHER -> Matches(View(p), s, m, NoOld)
  IN  IF hit = {} THEN { uuidv4Etag(p, "", 0) }
      ELSE { uuidv4Etag(p, r.id, r.generation + 1) : r \in hit }

\* the etag the INSERT or UPDATE of an add-or-update draws
EtagsOfWrite(p, op, request) ==
  IF op = "addEntity" THEN EtagsOfAdd(p) ELSE EtagsOfUpdate(p, request)

\* ---------------------------------------------------- Database.addEntity
\* an INSERT that takes uid and generation from the request when it has them
AddedRowAsRequested(request, etag, id) ==
  LET m == MetaOf(request.entity)
  IN  [entityRequestToDb(request, etag) EXCEPT
         !.id = IF TruthyStr(m, "uid") THEN m.uid ELSE id,
         !.generation = IF TruthyNum(m, "generation") THEN m.generation
                        ELSE 1]

AddedRow(request, etag, id) ==
  [entityRequestToDb(request, etag) EXCEPT !.id = id, !.generation = 1]

\* the INSERT of row new, run by p
AddOutcome(p, new) ==
  IF KeyTaken(p, new)
  THEN [ status |-> "Error", row |-> NoRow, response |-> NoResponse,
         message |-> "SQLITE_CONSTRAINT: UNIQUE" ]
  ELSE [ status |-> "written", row |-> new, response |-> NoResponse,
         message |-> NULL ]

\* -------------------------------------------------- Database.transaction
\* a transaction wrapper that passes every error on as it is
transactionRethrows(out) == out

\* what transaction(fn) returns or throws, given what fn returned or threw
transaction(out) ==
  IF out.status = "Error" /\ out.message = "SQLITE_CONSTRAINT: UNIQUE"
  THEN [out EXCEPT !.status = "Conflict",
                   !.message = "Rejected due to a conflicting entity"]
  ELSE out

\* ------------------------- callers of transaction(tx => db.xxxEntity(tx))
\* the observer carries the request along, and notes who called and which
\* strategy the call took, only while it records calls
Held(request) == IF keepCalls THEN request ELSE NoRequest

StoreUnchanged ==
  UNCHANGED << locations, locUuidCount, lastLoc, log, refresh, fn >>

\* the call of p returns (or throws) to its caller
Returns(p, op, s, status, request, row, response) ==
  /\ last' = [ proc |-> IF keepCalls THEN p ELSE "none", op |-> op,
                strategy |-> IF keepCalls THEN s ELSE 0, status |-> status ]
  /\ calls' = IF keepCalls
              THEN Append(calls,
                     [ proc |-> p, op |-> op, strategy |-> s,
                       status |-> status, request |-> request, row |-> row,
                       response |-> response ])
              ELSE calls
  /\ UNCHANGED keepCalls
  /\ ctx' = [ctx EXCEPT ![p] = IdleCtx]

\* the call of p throws: its transaction rolls back, having written nothing
Failed(p, op, s, status, request) ==
  Returns(p, op, s, status, Held(request), NoRow, NoResponse)

\* the call of p has written row: it goes on to select what it has written
\* or, when it has its response, to commit
Wrote(p, op, s, request, out, old) ==
  /\ ctx' = [ctx EXCEPT ![p] =
               [ pc |-> IF out.status = "written" THEN "readBack"
                        ELSE "commit",
                 op |-> op, strategy |-> s,
                 request |-> Held(request), row |-> out.row,
                 old |-> old,
                 meta |-> IF s \in {2, 3} THEN MetaOf(request.entity)
                          ELSE EmptyObj,
                 response |-> out.response ]]
  /\ UNCHANGED << last, calls, keepCalls >>

\* addEntity inside the open transaction of p: the INSERT
addEntityCall(p, request, etag) ==
  /\ uuidCount < MaxUuid
  /\ LET new == AddedRow(request, etag, UidPool[uuidCount + 1])
         out == transaction(AddOutcome(p, new))
     IN  /\ ~KeyWaits(p, new)
         /\ uuidCount' = uuidCount + 1
         /\ IF out.status = "written"
            THEN Wrote(p, "addEntity", 0, request, out, NoOld)
            ELSE Failed(p, "addEntity", 0, out.status, request)
  /\ UNCHANGED entities
  /\ StoreUnchanged

addEntity(p, request, etag) ==
  /\ ctx[p].pc = "idle"
  /\ addEntityCall(p, request, etag)

\* updateEntity of p up to and including its first statement that can wait:
\* what it throws or, once its UPDATE has gone through, has written; for a
\* name-only request that is the SELECT by name, and status "read" with
\* the row it found in old says that the UPDATE is still to come
updateEntityFirst(p, request, etag) ==
  LET s == Strategy(request)
      m == MetaOf(request.entity)
      newRow == entityRequestToDb(request, etag)
      oldRows == ByName(View(p), m)
  IN  CASE s = 0 ->
             [ out |-> [ status |-> "InvalidInput", row |-> NoRow,
                         response |-> NoResponse,
                         message |->
                           "Cannot update entity that has neither uid nor name" ],
               old |-> NoOld ]
        [] s = 4 /\ oldRows = {} ->
             [ out |-> [ status |-> "Conflict", row |-> NoRow,
                         response |-> NoResponse,
                         message |-> "No entity matching" ],
               old |-> NoOld ]
        [] s = 4 /\ oldRows # {} ->
             LET o == CHOOSE r \in oldRows : TRUE
             IN  [ out |-> [ status |-> "read", row |-> newRow,
                             response |-> NoResponse, message |-> NULL ],
                   old |-> [ id |-> o.id, generation |-> o.generation ] ]
        [] OTHER ->
             [ out |-> UpdateOutcome(p, s, newRow, m, NoOld), old |-> NoOld ]

\* updateEntity up to and including its first statement that can wait
updateEntityCall(p, request, etag) ==
  /\ LET s == Strategy(request)
         m == MetaOf(request.entity)
         newRow == entityRequestToDb(request, etag)
         first == updateEntityFirst(p, request, etag)
         out == transaction(first.out)
     IN  /\ s \in 1..3 => ~UpdateWaits(p, s, newRow, m, NoOld)
         /\ IF out.status = "read"
            THEN /\ first.old.generation < MaxGen
                 /\ ctx' = [ctx EXCEPT ![p] =
                      [ pc |-> "write", op |-> "updateEntity",
                        strategy |-> 4, request |-> Held(request),
                        row |-> out.row, old |-> first.old,
                        meta |-> EmptyObj, response |-> NoResponse ]]
                 /\ UNCHANGED << last, calls, keepCalls >>
            ELSE /\ out.row.generation <= MaxGen
                 /\ IF out.status \in {"ok", "written"}
                    THEN Wrote(p, "updateEntity", s, request, out, NoOld)
                    ELSE Failed(p, "updateEntity", s, out.status, request)
  /\ UNCHANGED << entities, uuidCount >>
  /\ StoreUnchanged

updateEntity(p, request, etag) ==
  /\ ctx[p].pc = "idle"
  /\ updateEntityCall(p, request, etag)

\* the conditional UPDATE of the name-only strategy, after its SELECT
updateEntityWrite(p) ==
  /\ ctx[p].pc = "write"
  /\ LET c == ctx[p]
         out == transaction(UpdateOutcome(p, 4, c.row, EmptyObj, c.old))
     IN  /\ ~UpdateWaits(p, 4, c.row, EmptyObj, c.old)
         /\ IF out.status = "written"
            THEN Wrote(p, "updateEntity", 4, c.request, out, c.old)
            ELSE Failed(p, "updateEntity", 4, out.status, c.request)
  /\ UNCHANGED << entities, uuidCount >>
  /\ StoreUnchanged

\* the SELECT of the row the INSERT or UPDATE of p has written, which the
\* response is made of
selectWritten(p) ==
  /\ ctx[p].pc = "readBack"
  /\ LET c == ctx[p]
         result == ReadBack(View(p), c)
     IN  IF result = {}
         THEN Failed(p, c.op, c.strategy, "Conflict", c.request)
         ELSE /\ ctx' = [ctx EXCEPT
                          ![p].pc = "commit",
                          ![p].old = NoOld,
                          ![p].meta = EmptyObj,
                          ![p].response =
                            entityDbToResponse(CHOOSE r \in result : TRUE)]
              /\ UNCHANGED << last, calls, keepCalls >>
  /\ UNCHANGED << entities, uuidCount >>
  /\ StoreUnchanged

\* the transaction of p commits and the call returns its response
commit(p) ==
  /\ ctx[p].pc = "commit"
  /\ entities' = View(p)
  /\ Returns(p, ctx[p].op, ctx[p].strategy, "ok", ctx[p].request,
             ctx[p].row, ctx[p].response)
  /\ UNCHANGED uuidCount
  /\ StoreUnchanged

\* ----------------------------------------------------- locations table
NoLoc == [ id |-> NULL, type |-> NULL, target |-> NULL ]
NoLocCall ==
  [ op |-> "none", status |-> "none", id |-> NULL, input |-> NoLoc,
    row |-> NoLoc, rows |-> {} ]
LocUnchanged ==
  UNCHANGED << entities, uuidCount, ctx, last, calls, keepCalls, log, refresh,
               fn >>

\* Database.locations: all rows
locationsResult(rows) == rows

\* Database.location: the row with this id, or NotFound
locationResult(rows, id) ==
  LET items == {r \in rows : r.id = id}
  IN  IF items = {}
      THEN [ status |-> "NotFound", row |-> NoLoc ]
      ELSE [ status |-> "ok", row |-> CHOOSE r \in items : TRUE ]

\* the open location calls: an addLocation is a transaction of its caller,
\* which holds the row it is going to return in response and the row it has
\* inserted, invisible to everyone else until the commit, in row
NoOpenCall == \A p \in Procs : ctx[p].pc = "idle"

\* a SELECT that looks for a row of the same type
existingLocationByType(rows, location) ==
  {r \in rows : r.type = location.type}

\* the SELECT by target that opens addLocation
existingLocation(rows, location) == {r \in rows : r.target = location.target}

\* unique index locations(target): an INSERT waits for the open transaction
\* that has inserted a row of the target, and fails when the target has a
\* committed row
TargetWaits(p, target) ==
  \E q \in Procs \ {p} :
     ctx[q].pc \in {"locSelect", "locCommit"} /\ ctx[q].row.target = target
TargetTaken(rows, target) == \E r \in rows : r.target = target

\* Database.addLocation, first statement: the transaction of p opens and
\* selects by target; existingLocation[0], when there is one, is what the
\* call is going to return
addLocation(p, location) ==
  /\ ctx[p].pc = "idle"
  /\ LET found == existingLocation(locations, location)
         input == [NoLoc EXCEPT !.type = location.type,
                                !.target = location.target]
     IN  IF found # {}
         THEN \E r \in found :
                 ctx' = [ctx EXCEPT ![p] =
                   [IdleCtx EXCEPT !.pc = "locCommit", !.op = "addLocation",
                                   !.request = input, !.row = NoLoc,
                                   !.response = r]]
         ELSE ctx' = [ctx EXCEPT ![p] =
                   [IdleCtx EXCEPT !.pc = "locInsert", !.op = "addLocation",
                                   !.request = input, !.row = NoLoc,
                                   !.response = NoLoc]]
  /\ UNCHANGED << entities, uuidCount, last, calls, keepCalls, locations,
                  locUuidCount, lastLoc, log, refresh, fn >>

\* second statement: the INSERT under a new id. When the unique index
\* rejects it the error leaves the transaction, which rolls back, and the
\* call throws it as it is: addLocation opens its transaction on knex
\* itself, not through Database.transaction, so nothing turns it into a
\* Conflict.
addLocationInsert(p) ==
  /\ ctx[p].pc = "locInsert"
  /\ locUuidCount < MaxLocUuid
  /\ ~TargetWaits(p, ctx[p].request.target)
  /\ locUuidCount' = locUuidCount + 1
  /\ IF TargetTaken(locations, ctx[p].request.target)
     THEN /\ ctx' = [ctx EXCEPT ![p] = IdleCtx]
          /\ lastLoc' = [ op |-> "addLocation", status |-> "Error",
                          id |-> NULL, input |-> ctx[p].request,
                          row |-> NoLoc, rows |-> {} ]
     ELSE /\ ctx' = [ctx EXCEPT
                       ![p].pc = "locSelect",
                       ![p].row = [ id |-> LocIdPool[locUuidCount + 1],
                                    type |-> ctx[p].request.type,
                                    target |-> ctx[p].request.target ]]
          /\ UNCHANGED lastLoc
  /\ UNCHANGED << entities, uuidCount, last, calls, keepCalls, locations,
                  log, refresh, fn >>

\* third statement: the SELECT by id, which sees the transaction's own row
addLocationSelect(p) ==
  /\ ctx[p].pc = "locSelect"
  /\ \E r \in {x \in locations \cup {ctx[p].row} : x.id = ctx[p].row.id} :
        ctx' = [ctx EXCEPT ![p].pc = "locCommit", ![p].response = r]
  /\ UNCHANGED << entities, uuidCount, last, calls, keepCalls, locations,
                  locUuidCount, lastLoc, log, refresh, fn >>

\* the transaction commits and the call returns the row
addLocationCommit(p) ==
  /\ ctx[p].pc = "locCommit"
  /\ locations' = IF ctx[p].row = NoLoc THEN locations
                  ELSE locations \cup {ctx[p].row}
  /\ lastLoc' = [ op |-> "addLocation", status |-> "ok", id |-> NULL,
                  input |-> ctx[p].request, row |-> ctx[p].response,
                  rows |-> {} ]
  /\ ctx' = [ctx EXCEPT ![p] = IdleCtx]
  /\ UNCHANGED << entities, uuidCount, last, calls, keepCalls, locUuidCount,
                  log, refresh, fn >>

\* a removeLocation that does not look at the number of deleted rows
removeLocationUnchecked(rows, id) ==
  [ rows |-> {r \in rows : r.id # id}, status |-> "ok" ]

\* Database.removeLocation: deletes by id, NotFound when nothing was deleted
removeLocationResult(rows, id) ==
  LET result == Cardinality({r \in rows : r.id = id})
  IN  [ rows |-> {r \in rows : r.id # id},
        status |-> IF result = 0 THEN "NotFound" ELSE "ok" ]

removeLocation(id) ==
  LET res == removeLocationResult(locations, id)
  IN  /\ locations' = res.rows
      /\ lastLoc' = [ op |-> "removeLocation", status |-> res.status,
                      id |-> id, input |-> NoLoc, row |-> NoLoc,
                      rows |-> {} ]
      /\ UNCHANGED locUuidCount
      /\ LocUnchanged

location(id) ==
  LET res == locationResult(locations, id)
  IN  /\ lastLoc' = [ op |-> "location", status |-> res.status, id |-> id,
                      input |-> NoLoc, row |-> res.row, rows |-> {} ]
      /\ UNCHANGED << locations, locUuidCount >>
      /\ LocUnchanged

locationsQuery ==
  /\ lastLoc' = [ op |-> "locations", status |-> "ok", id |-> NULL,
                  input |-> NoLoc, row |-> NoLoc,
                  rows |-> locationsResult(locations) ]
  /\ UNCHANGED << locations, locUuidCount >>
  /\ LocUnchanged

\* ------------------------------------------------- inputs of the callers
Names == {"c"}
Namespaces == {"d"}
Kinds == {"b", "new"}
\* etags of rows that are given to a pure function as its input
Etags == {"e1", "e2"}
NoGen == 0 - 1     \* stands for a request without a generation

MkMeta(name, namespace, uid, generation) ==
  [k \in (IF name = NULL THEN {} ELSE {"name"})
         \cup (IF namespace = NULL THEN {} ELSE {"namespace"})
         \cup (IF uid = NULL THEN {} ELSE {"uid"})
         \cup (IF generation = NoGen THEN {} ELSE {"generation"}) |->
     CASE k = "name" -> name
       [] k = "namespace" -> namespace
       [] k = "uid" -> uid
       [] k = "generation" -> generation]

MkEntity(kind, meta) ==
  [ apiVersion |-> "a", kind |-> kind, metadata |-> meta, spec |-> [i |-> "j"] ]

\* requests of direct callers: every stored entity has a name, so a request
\* addressed by uid carries one too
NamedMetas ==
  { MkMeta(n, ns, u, g) :
      n \in Names, ns \in Namespaces \cup {NULL},
      u \in {UidPool[i] : i \in 1..2} \cup {NULL},
      g \in (0..MaxGen) \cup {NoGen} }
ClientRequests ==
  { [ locationId |-> NULL, entity |-> MkEntity(k, m) ] :
      k \in Kinds, m \in NamedMetas \cup {EmptyObj} }
\* requests to addEntity: an entity of kind "b", without uid and
\* generation or with both
AddRequests ==
  { r \in ClientRequests :
      LET m == MetaOf(r.entity)
      IN  /\ r.entity.kind = "b"
          /\ TruthyStr(m, "name")
          /\ \/ ~Has(m, "uid") /\ ~Has(m, "generation")
             \/ Has(m, "uid") /\ Has(m, "generation")
                /\ m.uid = UidPool[1] /\ m.generation = MaxGen }
\* requests to updateEntity: they make the entity one of kind "new"
UpdateRequests == { r \in ClientRequests : r.entity.kind = "new" }

Init ==
  /\ entities = {}
  /\ uuidCount = 0
  /\ ctx = [p \in Procs |-> IdleCtx]
  /\ last = NoCall
  /\ calls = << >>
  /\ keepCalls = FALSE
  /\ locations = {}
  /\ locUuidCount = 0
  /\ lastLoc = NoLocCall
  /\ log = << >>
  /\ refresh = IdleRefresh
  /\ fn = NoFn

Next ==
  \E p \in Clients :
     \/ /\ ctx[p].pc = "idle"
        /\ \E request \in AddRequests, etag \in EtagsOfAdd(p) :
             addEntity(p, request, etag)
     \/ /\ ctx[p].pc = "idle"
        /\ \E request \in UpdateRequests :
             \E etag \in EtagsOfUpdate(p, request) :
                updateEntity(p, request, etag)
     \/ updateEntityWrite(p)
     \/ selectWritten(p)
     \/ commit(p)

Spec == Init /\ [][Next]_vars

\* ------------------------------------------------------- Database.entity
entity(rows, name, namespace) ==
  LET found == {r \in rows : /\ r.name = name
                              /\ r.namespace = Or(namespace, NULL)}
  IN  IF Cardinality(found) # 1 THEN NoResponse
      ELSE entityDbToResponse(CHOOSE r \in found : TRUE)

\* ------------------------------------- two callers racing on one entity
\* Each caller reads the entity once, changes the kind of what it read,
\* keeps the generation and sends it back addressed by uid or, with the
\* uid taken out, by name.
HasCalled(p) == \E i \in 1..Len(calls) : calls[i].proc = p

readEntity(p, name, namespace, kind, byUid) ==
  /\ ctx[p].pc = "idle"
  /\ ~HasCalled(p)
  /\ LET response == entity(View(p), name, namespace)
         e == response.entity
         md == IF byUid THEN e.metadata ELSE Without(e.metadata, {"uid"})
     IN  /\ response # NoResponse
         /\ ctx' = [ctx EXCEPT ![p] =
              [IdleCtx EXCEPT
                 !.pc = "read",
                 !.request = [ locationId |-> response.locationId,
                               entity |-> [e EXCEPT !.kind = kind,
                                                    !.metadata = md] ]]]
  /\ UNCHANGED << entities, uuidCount, last, calls, keepCalls >>
  /\ StoreUnchanged

sendUpdate(p, etag) ==
  /\ ctx[p].pc = "read"
  /\ updateEntityCall(p, ctx[p].request, etag)

\* the store holds one entity, added and then updated up to generation g
StoredEntity(request, etag, g) ==
  [AddedRow(request, etag, UidPool[1]) EXCEPT !.generation = g]

InitRace ==
  /\ \E request \in AddRequests, g \in 1..(MaxGen - 1) :
       entities = {StoredEntity(request, uuidv4Etag("c0", UidPool[1], g), g)}
  /\ uuidCount = 1
  /\ ctx = [p \in Procs |-> IdleCtx]
  /\ last = NoCall
  /\ calls = << >>
  /\ keepCalls = TRUE
  /\ locations = {}
  /\ locUuidCount = 0
  /\ lastLoc = NoLocCall
  /\ log = << >>
  /\ refresh = IdleRefresh
  /\ fn = NoFn

NextRace ==
  \E p \in Clients :
     \/ \E n \in Names, ns \in Namespaces \cup {NULL}, k \in Kinds,
           byUid \in BOOLEAN : readEntity(p, n, ns, k, byUid)
     \/ \E etag \in EtagsOfUpdate(p, ctx[p].request) : sendUpdate(p, etag)
     \/ selectWritten(p)
     \/ commit(p)

SpecRace == InitRace /\ [][NextRace]_vars

\* a name-only update next to another writer, who updates by uid
NameOnlyRequests ==
  { [ locationId |-> NULL, entity |-> MkEntity("new", MkMeta(n, ns, NULL, NoGen)) ] :
      n \in Names, ns \in Namespaces \cup {NULL} }
ByUidRequests ==
  { [ locationId |-> NULL,
      entity |-> MkEntity("other", MkMeta(n, ns, UidPool[1], NoGen)) ] :
      n \in Names, ns \in Namespaces \cup {NULL} }

NextNameOnly ==
  \E p \in Clients :
     \/ \E request \in NameOnlyRequests \cup ByUidRequests :
          \E etag \in EtagsOfUpdate(p, request) :
             Len(calls) < MaxCalls /\ updateEntity(p, request, etag)
     \/ updateEntityWrite(p)
     \/ selectWritten(p)
     \/ commit(p)

SpecNameOnly == InitRace /\ [][NextNameOnly]_vars

\* two callers, one updateEntity each, on a store of two entities
FrameNames == Names \cup {"z"}
FrameRequests ==
  { [ locationId |-> NULL, entity |-> MkEntity("new", MkMeta(n, ns, u, g)) ] :
      n \in FrameNames, ns \in Namespaces \cup {NULL},
      u \in {NULL, UidPool[1]}, g \in {NoGen} \cup (1..MaxGen) }

InitFrame ==
  /\ \E n \in Names, ns \in Namespaces, g \in 1..(MaxGen - 1) :
       entities =
         { StoredEntity([ locationId |-> NULL,
                          entity |-> MkEntity("b", MkMeta(n, NULL, NULL, NoGen)) ],
                        uuidv4Etag("c0", UidPool[1], g), g),
           AddedRow([ locationId |-> NULL,
                      entity |-> MkEntity("b", MkMeta(n, ns, NULL, NoGen)) ],
                    uuidv4Etag("c0", UidPool[2], 1), UidPool[2]) }
  /\ uuidCount = 2
  /\ ctx = [p \in Procs |-> IdleCtx]
  /\ last = NoCall
  /\ calls = << >>
  /\ keepCalls = TRUE
  /\ locations = {}
  /\ locUuidCount = 0
  /\ lastLoc = NoLocCall
  /\ log = << >>
  /\ refresh = IdleRefresh
  /\ fn = NoFn

NextFrame ==
  \E p \in Clients :
     \/ \E request \in FrameRequests :
          \E etag \in EtagsOfUpdate(p, request) :
             ~HasCalled(p) /\ updateEntity(p, request, etag)
     \/ updateEntityWrite(p)
     \/ selectWritten(p)
     \/ commit(p)

SpecFrame == InitFrame /\ [][NextFrame]_vars

\* ------------------------------------------- callers of the location API
LocInputs == [ type : {"a", "t"}, target : {"b", "x"} ]
LocIds == {LocIdPool[i] : i \in 1..(MaxLocUuid + 1)}

\* one caller, whose calls come one after the other
NextLoc ==
  \/ \E l \in LocInputs : addLocation(Writer, l)
  \/ addLocationInsert(Writer)
  \/ addLocationSelect(Writer)
  \/ addLocationCommit(Writer)
  \/ \E id \in LocIds : NoOpenCall /\ removeLocation(id)
  \/ \E id \in LocIds : NoOpenCall /\ location(id)
  \/ NoOpenCall /\ locationsQuery

SpecLoc == Init /\ [][NextLoc]_vars

\* two callers, whose addLocation calls may overlap
NextLocConc ==
  \E p \in Clients :
        \/ \E l \in LocInputs : addLocation(p, l)
        \/ addLocationInsert(p)
        \/ addLocationSelect(p)
        \/ addLocationCommit(p)

SpecLocConc == Init /\ [][NextLocConc]_vars

\* -------------------------------------------------- location_update_log
SUCCESS == "success"
FAIL == "fail"

\* Database.addLocationUpdateLogEvent: one more row (its id is a new uuid
\* that nothing reads; the position in the sequence stands for it)
addLocationUpdateLogEvent(rows, locationId, status, entityName, message) ==
  Append(rows, [ status |-> status, location_id |-> locationId,
                 entity_name |-> entityName, message |-> message ])

logUpdateSuccess(rows, locationId, entityName) ==
  addLocationUpdateLogEvent(rows, locationId, SUCCESS, entityName, NULL)

\* a failure event that leaves the entity name out
logUpdateFailureUnnamed(rows, locationId, message, entityName) ==
  addLocationUpdateLogEvent(rows, locationId, FAIL, NULL, message)

logUpdateFailure(rows, locationId, message, entityName) ==
  addLocationUpdateLogEvent(rows, locationId, FAIL, entityName, message)

\* ------------------------------------------- the reader and the parser
\* What a reader yields for a location: error items and data items. The
\* data of a data item is one of these documents.
Documents == {"d1", "d2", "noname", "nometa", "bad", "badc"}
ReaderItems ==
  {[ type |-> "error", data |-> NULL ]}
    \cup {[ type |-> "data", data |-> d ] : d \in Documents}
ReaderErrors == {"boom"}

Parsed(descriptor) ==
  [ ok |-> TRUE, descriptor |-> descriptor, entityName |-> NULL,
    message |-> NULL ]
ParserError(message, entityName) ==
  [ ok |-> FALSE, descriptor |-> EmptyObj, entityName |-> entityName,
    message |-> message ]

\* parser.parse(data): the entity of the document, or a ParserError that
\* may carry the name of the entity
parse(data) ==
  CASE data = "d1" ->
         Parsed([ apiVersion |-> "a", kind |-> "b",
                  metadata |-> [ name |-> "c", annotations |-> [g |-> "h"] ],
                  spec |-> [i |-> "j"] ])
    [] data = "d2" ->
         Parsed([ apiVersion |-> "a", kind |-> "new",
                  metadata |-> [ name |-> "c", labels |-> [e |-> "f"] ] ])
    [] data = "noname" ->
         Parsed([ apiVersion |-> "a", kind |-> "b",
                  metadata |-> [ labels |-> [e |-> "f"] ] ])
    [] data = "nometa" ->
         Parsed([ apiVersion |-> "a", kind |-> "b", spec |-> [i |-> "j"] ])
    [] data = "bad" -> ParserError("malformed", NULL)
    [] data = "badc" -> ParserError("malformed", "c")

\* ------------------------------------ DatabaseManager.refreshSingleEntity
\* what the transaction body does after its SELECT over rows
refreshSingleEntity(rows, locationId, descriptor) ==
  LET m == MetaOf(descriptor)
  IN  IF ~TruthyStr(m, "name")
      THEN [ op |-> "throw", request |-> NoRequest,
             message |-> "Entities without names are not yet supported" ]
      ELSE
        LET previous == entity(rows, m.name,
                               IF Has(m, "namespace") THEN m.namespace
                               ELSE NULL)
        IN  IF previous # NoResponse
            THEN [ op |-> "updateEntity",
                   request |-> [ locationId |-> locationId,
                                 entity |-> mergeEntities(previous.entity,
                                                          descriptor) ],
                   message |-> NULL ]
            ELSE [ op |-> "addEntity",
                   request |-> [ locationId |-> locationId,
                                 entity |-> descriptor ],
                   message |-> NULL ]

\* ------------------- concurrent callers of refreshSingleEntity
\* the transaction of p opens and its SELECT looks for the entity
refreshSingleEntityRead(p, descriptor) ==
  /\ ctx[p].pc = "idle"
  /\ ~HasCalled(p)
  /\ LET plan == refreshSingleEntity(View(p), NULL, descriptor)
     IN  IF plan.op = "throw"
         THEN Failed(p, "refreshSingleEntity", 0, "Error",
                     [ locationId |-> NULL, entity |-> descriptor ])
         ELSE /\ ctx' = [ctx EXCEPT ![p] =
                   [IdleCtx EXCEPT !.pc = "select", !.op = plan.op,
                                   !.strategy = IF plan.op = "addEntity" THEN 0
                                                ELSE Strategy(plan.request),
                                   !.request = plan.request]]
              /\ UNCHANGED << last, calls, keepCalls >>
  /\ UNCHANGED << entities, uuidCount >>
  /\ StoreUnchanged

\* database.addEntity or database.updateEntity, as the SELECT decided, in
\* the same transaction; an updateEntity that has read by name goes on with
\* its UPDATE in a step of its own
refreshSingleEntityWrite(p, etag) ==
  IF ctx[p].pc = "write"
  THEN updateEntityWrite(p)
  ELSE /\ ctx[p].pc = "select"
       /\ IF ctx[p].op = "addEntity"
          THEN addEntityCall(p, ctx[p].request, etag)
          ELSE updateEntityCall(p, ctx[p].request, etag)

Descriptors ==
  { MkEntity(k, MkMeta(n, ns, NULL, NoGen)) :
      k \in Kinds, n \in Names \cup {NULL},
      ns \in Namespaces \cup {NULL, ""} }

InitAddOrUpdate ==
  /\ entities = {}
  /\ uuidCount = 0
  /\ ctx = [p \in Procs |-> IdleCtx]
  /\ last = NoCall
  /\ calls = << >>
  /\ keepCalls = TRUE
  /\ locations = {}
  /\ locUuidCount = 0
  /\ lastLoc = NoLocCall
  /\ log = << >>
  /\ refresh = IdleRefresh
  /\ fn = NoFn

NextAddOrUpdate ==
  \E p \in Clients :
     \/ \E descriptor \in Descriptors : refreshSingleEntityRead(p, descriptor)
     \/ \E etag \in EtagsOfWrite(p, ctx[p].op, ctx[p].request) :
          refreshSingleEntityWrite(p, etag)
     \/ selectWritten(p)
     \/ commit(p)

SpecAddOrUpdate == InitAddOrUpdate /\ [][NextAddOrUpdate]_vars

\* ------------------------------------- DatabaseManager.refreshLocations
\* database.locations(): the rows in the order they were inserted
RECURSIVE InInsertionOrder(_, _)
InInsertionOrder(rows, i) ==
  IF rows = {} THEN << >>
  ELSE LET here == {r \in rows : r.id = LocIdPool[i]}
       IN  (IF here = {} THEN << >> ELSE << CHOOSE r \in here : TRUE >>)
             \o InInsertionOrder(rows \ here, i + 1)

RefreshUnchanged ==
  UNCHANGED << last, calls, keepCalls, locations, locUuidCount, lastLoc, fn >>

CurrentLocation == refresh.locations[refresh.li]

\* the loop goes on with the next location, or the run is over
NextLocation(rf) ==
  IF rf.li = Len(rf.locations)
  THEN [rf EXCEPT !.pc = "done", !.op = "none", !.request = NoRequest,
                  !.descriptor = EmptyObj]
  ELSE [rf EXCEPT !.pc = "read", !.li = rf.li + 1, !.op = "none",
                  !.request = NoRequest, !.descriptor = EmptyObj]

\* a catch around the whole loop: the run is over
catchRun(rf) == [rf EXCEPT !.pc = "done"]

\* the catch around one location: the loop goes on
catchLocation(rf) == NextLocation(rf)

\* observer: the item the loop has taken, and what became of it
TookItem(rf, item, result) ==
  [rf EXCEPT !.read[rf.li].items =
     Append(@, [ type |-> item.type, data |-> item.data,
                 result |-> result ])]
Settled(rf, result) ==
  [rf EXCEPT !.read[rf.li].items[Len(rf.read[rf.li].items)].result = result,
             !.pc = "items", !.op = "none", !.request = NoRequest,
             !.descriptor = EmptyObj, !.error = IdleRefresh.error]

\* the try block of the item throws: the loop is on its way to the catch
Thrown(rf, message, entityName, result) ==
  [rf EXCEPT !.pc = "catch", !.op = "none", !.request = NoRequest,
             !.error = [ message |-> message, entityName |-> entityName,
                         result |-> result ]]

\* no catch around the add-or-update of one item: its failure ends the run
rethrowItem(rf, result) == catchRun(Settled(rf, result))

\* the catch around one item: the loop goes on with the next item
catchItem(rf, result) == Settled(rf, result)

\* the database a run is given: an instance of class Database as it is in
\* the source, which has no method addOrUpdateEntity, or of a Database that
\* has the method
Databases == {"Database", "DatabaseWithAddOrUpdate"}

\* database.addOrUpdateEntity of a Database that has it: the add-or-update
\* transaction, as refreshSingleEntity runs it
addOrUpdateEntity(rows, locationId, descriptor) ==
  refreshSingleEntity(rows, locationId, descriptor)

refreshLocations ==
  /\ refresh.pc = "idle"
  /\ \E database \in Databases :
       LET snapshot == InInsertionOrder(locationsResult(locations), 1)
       IN  refresh' = IF snapshot = << >>
                      THEN [refresh EXCEPT !.pc = "done",
                                           !.database = database]
                      ELSE [refresh EXCEPT !.pc = "read", !.li = 1,
                                           !.database = database,
                                           !.locations = snapshot]
  /\ UNCHANGED << entities, uuidCount, ctx, log >>
  /\ RefreshUnchanged

\* reader.read(type, target) throws, or returns its output
readLocation ==
  /\ refresh.pc = "read"
  /\ \/ \E message \in ReaderErrors :
          /\ log' = logUpdateFailure(log, CurrentLocation.id, message, NULL)
          /\ refresh' = catchLocation(
               [refresh EXCEPT !.read = Append(@,
                  [ threw |-> TRUE, message |-> message, items |-> << >> ])])
     \/ /\ refresh' = [refresh EXCEPT
                         !.pc = "items",
                         !.read = Append(@, [ threw |-> FALSE,
                                              message |-> NULL,
                                              items |-> << >> ])]
        /\ UNCHANGED log
  /\ UNCHANGED << entities, uuidCount, ctx >>
  /\ RefreshUnchanged

\* a loop that goes on to the next location without a word in the log
endOfItemsUnlogged ==
  /\ refresh.pc = "items"
  /\ refresh' = NextLocation(refresh)
  /\ UNCHANGED << entities, uuidCount, ctx, log >>
  /\ RefreshUnchanged

\* the reader output has no further item
endOfItems ==
  /\ refresh.pc = "items"
  /\ log' = logUpdateSuccess(log, CurrentLocation.id, NULL)
  /\ refresh' = NextLocation(refresh)
  /\ UNCHANGED << entities, uuidCount, ctx >>
  /\ RefreshUnchanged

\* the loop takes the next item: skips an error item, parses a data item
\* and calls database.addOrUpdateEntity, which is a TypeError on a Database
\* without the method and otherwise opens the transaction of the
\* add-or-update with its SELECT. Nothing of what a throw in here depends on
\* is in the tables, so the throw is not a step of its own.
nextItem(item) ==
  /\ refresh.pc = "items"
  /\ Len(refresh.read[refresh.li].items) < MaxItems
  /\ IF item.type = "error"
     THEN refresh' = TookItem(refresh, item, "skipped")
     ELSE LET parsed == parse(item.data)
              plan == addOrUpdateEntity(View(Refresher), CurrentLocation.id,
                                        parsed.descriptor)
              took == TookItem(refresh, item, "pending")
          IN  IF ~parsed.ok
              THEN refresh' = Thrown(took, parsed.message, parsed.entityName,
                                     "parseFailed")
              ELSE IF refresh.database = "Database"
              THEN refresh' = Thrown(took,
                                "database.addOrUpdateEntity is not a function",
                                NULL, "persistFailed")
              ELSE IF plan.op = "throw"
              THEN refresh' = Thrown(took, plan.message, NULL, "persistFailed")
              ELSE refresh' = [took EXCEPT
                                 !.pc = "write", !.op = plan.op,
                                 !.request = plan.request,
                                 !.descriptor = parsed.descriptor]
  /\ UNCHANGED << entities, uuidCount, ctx, log >>
  /\ RefreshUnchanged

\* database.addEntity or database.updateEntity of the add-or-update, in the
\* transaction its SELECT has opened, up to its INSERT or UPDATE; an
\* updateEntity that has read by name goes on with its UPDATE in a step of
\* its own
refreshWrite(etag) ==
  /\ refresh.pc \in {"write", "update"}
  /\ LET add == refresh.op = "addEntity"
         new == AddedRow(refresh.request, etag, UidPool[uuidCount + 1])
         s == Strategy(refresh.request)
         m == MetaOf(refresh.request.entity)
         c == ctx[Refresher]
         first ==
           IF refresh.pc = "update"
           THEN [ out |-> UpdateOutcome(Refresher, 4, c.row, EmptyObj, c.old),
                  old |-> c.old ]
           ELSE IF add
           THEN [ out |-> AddOutcome(Refresher, new), old |-> NoOld ]
           ELSE updateEntityFirst(Refresher, refresh.request, etag)
         out == transaction(first.out)
     IN  /\ IF refresh.pc = "update"
            THEN ~UpdateWaits(Refresher, 4, c.row, EmptyObj, c.old)
            ELSE IF add THEN ~KeyWaits(Refresher, new)
            ELSE s \in 1..3 =>
                   ~UpdateWaits(Refresher, s,
                                entityRequestToDb(refresh.request, etag),
                                m, NoOld)
         /\ uuidCount' = IF refresh.pc = "write" /\ add THEN uuidCount + 1
                         ELSE uuidCount
         /\ CASE out.status = "ok" ->
                   /\ ctx' = [ctx EXCEPT ![Refresher] =
                        [IdleCtx EXCEPT !.pc = "commit", !.op = refresh.op,
                                        !.strategy = IF add THEN 0 ELSE s,
                                        !.row = out.row,
                                        !.response = out.response]]
                   /\ refresh' = [refresh EXCEPT !.pc = "commit"]
              [] out.status = "written" ->
                   /\ ctx' = [ctx EXCEPT ![Refresher] =
                        [IdleCtx EXCEPT !.pc = "readBack", !.op = refresh.op,
                                        !.strategy = IF add THEN 0 ELSE s,
                                        !.row = out.row,
                                        !.old = first.old,
                                        !.meta = IF ~add /\ s \in {2, 3}
                                                 THEN m ELSE EmptyObj]]
                   /\ refresh' = [refresh EXCEPT !.pc = "readBack"]
              [] out.status = "read" ->
                   /\ ctx' = [ctx EXCEPT ![Refresher] =
                        [IdleCtx EXCEPT !.pc = "write", !.op = refresh.op,
                                        !.strategy = s, !.row = out.row,
                                        !.old = first.old]]
                   /\ refresh' = [refresh EXCEPT !.pc = "update"]
              [] OTHER ->
                   /\ ctx' = [ctx EXCEPT ![Refresher] = IdleCtx]
                   /\ refresh' = Thrown(refresh, out.message, NULL,
                                        "persistFailed")
  /\ UNCHANGED << entities, log >>
  /\ RefreshUnchanged

\* the SELECT of the row the INSERT or UPDATE of the item has written
refreshSelectWritten ==
  /\ refresh.pc = "readBack"
  /\ LET result == ReadBack(View(Refresher), ctx[Refresher])
     IN  IF result = {}
         THEN /\ ctx' = [ctx EXCEPT ![Refresher] = IdleCtx]
              /\ refresh' = Thrown(refresh,
                                   "Failed to read the generated entity",
                                   NULL, "persistFailed")
         ELSE /\ ctx' = [ctx EXCEPT
                          ![Refresher].pc = "commit",
                          ![Refresher].old = NoOld,
                          ![Refresher].meta = EmptyObj,
                          ![Refresher].response =
                            entityDbToResponse(CHOOSE r \in result : TRUE)]
              /\ refresh' = [refresh EXCEPT !.pc = "commit"]
  /\ UNCHANGED << entities, uuidCount, log >>
  /\ RefreshUnchanged

\* the transaction commits and database.addOrUpdateEntity returns
refreshCommit ==
  /\ refresh.pc = "commit"
  /\ entities' = View(Refresher)
  /\ ctx' = [ctx EXCEPT ![Refresher] = IdleCtx]
  /\ refresh' = [refresh EXCEPT !.pc = "logSuccess"]
  /\ UNCHANGED << uuidCount, log >>
  /\ RefreshUnchanged

\* the success of the item is logged under the name of its entity; reading
\* the name of an entity without metadata throws, which the catch logs
refreshLogSuccess ==
  /\ refresh.pc = "logSuccess"
  /\ log' = IF Has(refresh.descriptor, "metadata")
            THEN logUpdateSuccess(log, CurrentLocation.id,
                                  OrNull(refresh.descriptor.metadata, "name"))
            ELSE logUpdateFailure(log, CurrentLocation.id,
                                  "Cannot read property 'name' of undefined",
                                  NULL)
  /\ refresh' = Settled(refresh, "persisted")
  /\ UNCHANGED << entities, uuidCount, ctx >>
  /\ RefreshUnchanged

\* the catch of the item: the failure is logged, with the entity name when
\* the error is a ParserError that has one, and the loop goes on
refreshCatch ==
  /\ refresh.pc = "catch"
  /\ log' = logUpdateFailure(log, CurrentLocation.id, refresh.error.message,
                             refresh.error.entityName)
  /\ refresh' = catchItem(refresh, refresh.error.result)
  /\ UNCHANGED << entities, uuidCount, ctx >>
  /\ RefreshUnchanged

\* the locations of a run are added, one call after the other, before it
AddsLocation ==
  /\ refresh.pc = "idle"
  /\ \/ \E l \in { x \in LocInputs : x.type = "a" } : addLocation(Writer, l)
     \/ addLocationInsert(Writer)
     \/ addLocationSelect(Writer)
     \/ addLocationCommit(Writer)

NextRefresh ==
  \/ AddsLocation
  \/ NoOpenCall /\ refreshLocations
  \/ readLocation
  \/ endOfItems
  \/ \E item \in ReaderItems : nextItem(item)
  \/ \E etag \in EtagsOfWrite(Refresher, refresh.op, refresh.request) :
       refreshWrite(etag)
  \/ refreshSelectWritten
  \/ refreshCommit
  \/ refreshLogSuccess
  \/ refreshCatch

SpecRefresh == Init /\ [][NextRefresh]_vars

\* a refresh run with another writer of the entity store at work: during
\* the run the writer makes one call, which adds the entity the locations
\* describe or updates it by uid
RefreshStep ==
  \/ NoOpenCall /\ refreshLocations
  \/ readLocation
  \/ endOfItems
  \/ \E item \in { x \in ReaderItems : x.data \in {NULL, "d1", "bad"} } :
       nextItem(item)
  \/ \E etag \in EtagsOfWrite(Refresher, refresh.op, refresh.request) :
       refreshWrite(etag)
  \/ refreshSelectWritten
  \/ refreshCommit
  \/ refreshLogSuccess
  \/ refreshCatch

NextRefreshConc ==
  \/ AddsLocation
  \/ RefreshStep
  \/ \E n \in Names, etag \in EtagsOfAdd(Writer) :
       /\ refresh.pc \notin {"idle", "done"} /\ last = NoCall
       /\ addEntity(Writer,
                    [ locationId |-> NULL,
                      entity |-> MkEntity("b", MkMeta(n, NULL, NULL, NoGen)) ],
                    etag)
  \/ \E request \in
          { [ locationId |-> NULL,
              entity |-> MkEntity("new", MkMeta(n, NULL, u, NoGen)) ] :
              n \in Names, u \in {UidPool[i] : i \in 1..2} } :
       \E etag \in EtagsOfUpdate(Writer, request) :
          /\ refresh.pc \notin {"idle", "done"} /\ last = NoCall
          /\ updateEntity(Writer, request, etag)
  \/ selectWritten(Writer)
  \/ commit(Writer)

SpecRefreshConc == Init /\ [][NextRefreshConc]_vars

\* every continuation of the run that can go on is run, and the writer's
\* transaction is committed once its statement has returned
SpecRefreshLive ==
  /\ SpecRefreshConc
  /\ WF_vars(RefreshStep)
  /\ WF_vars(selectWritten(Writer))
  /\ WF_vars(commit(Writer))

\* --------------------------------------- mergeEntities on its own inputs
\* base is the stored entity as the store returns it, added is what the
\* parser made of a document
Annotations ==
  { EmptyObj, [g |-> "h"], [g |-> "h", n |-> "o"], [labels |-> "h"] }
AddedAnnotations ==
  { [g |-> "x"], [p |-> "q"], [g |-> "x", p |-> "q"],
    [labels |-> "x", spec |-> "q"] }

WithAnnotations(metas, annotationSets) ==
  metas \cup { Spread(m, [annotations |-> a]) : m \in metas,
                                                 a \in annotationSets }

MergeBases ==
  { entityDbToResponse(
      StoredEntity([ locationId |-> NULL, entity |-> MkEntity("b", m) ],
                   e, g)).entity :
      m \in WithAnnotations({ MkMeta(n, ns, NULL, NoGen) :
                                n \in Names, ns \in Namespaces \cup {NULL} },
                            Annotations),
      e \in Etags, g \in 1..MaxGen }

MergeAdded ==
  { MkEntity(k, m) :
      k \in Kinds,
      m \in WithAnnotations({ MkMeta(n, ns, u, g) :
                                n \in Names, ns \in Namespaces \cup {NULL},
                                u \in {NULL, UidPool[2]},
                                g \in {NoGen, 0, MaxGen} },
                            AddedAnnotations) }
    \cup { [ apiVersion |-> "a", kind |-> "new" ] }

InitMerge ==
  /\ entities = {}
  /\ uuidCount = 0
  /\ ctx = [p \in Procs |-> IdleCtx]
  /\ last = NoCall
  /\ calls = << >>
  /\ keepCalls = FALSE
  /\ locations = {}
  /\ locUuidCount = 0
  /\ lastLoc = NoLocCall
  /\ log = << >>
  /\ refresh = IdleRefresh
  /\ \E base \in MergeBases, added \in MergeAdded :
       fn = [NoFn EXCEPT !.op = "mergeEntities", !.base = base,
                         !.added = added]

callMergeEntities ==
  /\ fn.op = "mergeEntities" /\ ~fn.done
  /\ fn' = [fn EXCEPT !.result = mergeEntities(fn.base, fn.added),
                      !.baseAfter = baseAfterMerge(fn.base, fn.added),
                      !.addedAfter = addedAfterMerge(fn.base, fn.added),
                      !.done = TRUE]
  /\ UNCHANGED << entities, uuidCount, ctx, last, calls, keepCalls, locations,
                  locUuidCount, lastLoc, log, refresh >>

NextMerge == callMergeEntities

SpecMerge == InitMerge /\ [][NextMerge]_vars

\* ------------------------------------- the row codec on its own inputs
OtherMetaKeys == { EmptyObj, [etag |-> "old"], [labels |-> [e |-> "f"]] }
CodecMetas ==
  { Spread(MkMeta(n, ns, u, g), o) :
      n \in Names \cup {NULL, ""}, ns \in Namespaces \cup {NULL},
      u \in {NULL, UidPool[1]}, g \in {NoGen, 0, MaxGen},
      o \in OtherMetaKeys }
CodecEntities ==
  { MkEntity(k, m) : k \in Kinds, m \in CodecMetas }
    \cup { [ apiVersion |-> "a", kind |-> k, metadata |-> m ] :
             k \in Kinds, m \in CodecMetas }
    \cup { [ apiVersion |-> "a", kind |-> k, spec |-> EmptyObj ] : k \in Kinds }
CodecRequests ==
  { [ locationId |-> l, entity |-> e ] :
      l \in {NULL, "", LocIdPool[1]}, e \in CodecEntities }
\* rows of the entities table, whose metadata text may be any JSON object
CodecRows ==
  { [StoredEntity([ locationId |-> NULL, entity |-> MkEntity("b", EmptyObj) ],
                  e, g)
       EXCEPT !.location_id = l,
              !.name = OrNull(m, "name"),
              !.namespace = OrNull(m, "namespace"),
              !.metadata = IF null THEN NullBlob ELSE JSONstringify(m)] :
      e \in Etags, g \in 1..MaxGen, m \in CodecMetas, null \in BOOLEAN,
      l \in {NULL, "", LocIdPool[1]} }

InitCodec ==
  /\ entities = {}
  /\ uuidCount = 0
  /\ ctx = [p \in Procs |-> IdleCtx]
  /\ last = NoCall
  /\ calls = << >>
  /\ keepCalls = FALSE
  /\ locations = {}
  /\ locUuidCount = 0
  /\ lastLoc = NoLocCall
  /\ log = << >>
  /\ refresh = IdleRefresh
  /\ \/ \E request \in CodecRequests :
          fn = [NoFn EXCEPT !.op = "entityRequestToDb", !.request = request]
     \/ \E row \in CodecRows :
          fn = [NoFn EXCEPT !.op = "entityDbToResponse", !.row = row]

CodecUnchanged ==
  UNCHANGED << entities, uuidCount, ctx, last, calls, keepCalls, locations,
               locUuidCount, lastLoc, log, refresh >>

callEntityRequestToDb(etag) ==
  /\ fn.op = "entityRequestToDb" /\ fn.row = NoRow
  /\ fn' = [fn EXCEPT !.row = entityRequestToDb(fn.request, etag)]
  /\ CodecUnchanged

\* the row gets its id from addEntity, and later generations from updates
storeRow(id, g) ==
  /\ fn.op = "entityRequestToDb" /\ fn.row # NoRow /\ fn.row.id = ""
  /\ ~fn.done
  /\ fn' = [fn EXCEPT !.row.id = id, !.row.generation = g]
  /\ CodecUnchanged

callEntityDbToResponse ==
  /\ fn.op \in {"entityRequestToDb", "entityDbToResponse"}
  /\ fn.row # NoRow /\ ~fn.done
  /\ fn' = [fn EXCEPT !.result = entityDbToResponse(fn.row), !.done = TRUE]
  /\ CodecUnchanged

NextCodec ==
  \/ \E etag \in Etags : callEntityRequestToDb(etag)
  \/ \E g \in 1..MaxGen : storeRow(UidPool[2], g)
  \/ callEntityDbToResponse

SpecCodec == InitCodec /\ [][NextCodec]_vars

\* ------------------------------------------------------ Database.entities
\* the values of the namespace and name columns, in ascending order
ListNamespaces == << NULL, "d" >>
ListNames == << "a", "z" >>
Rank(ordered, x) == CHOOSE i \in 1..Len(ordered) : ordered[i] = x

\* .orderBy('namespace', 'name') is ORDER BY namespace with 'name' taken for
\* the direction, which is not one and falls back to ascending; rows with
\* the same namespace come in whatever order the engine reads them
entitiesResult(rows) ==
  { [i \in DOMAIN order |-> entityDbToResponse(order[i])] :
      order \in
        { o \in [1..Cardinality(rows) -> rows] :
            /\ \A i, j \in DOMAIN o : i # j => o[i] # o[j]
            /\ \A i, j \in DOMAIN o :
                 i < j => Rank(ListNamespaces, o[i].namespace)
                            <= Rank(ListNamespaces, o[j].namespace) } }

entitiesQuery ==
  /\ \E result \in entitiesResult(entities) :
       fn' = [NoFn EXCEPT !.op = "entities", !.result = result,
                          !.done = TRUE]
  /\ UNCHANGED << entities, uuidCount, ctx, last, calls, keepCalls, locations,
                  locUuidCount, lastLoc, log, refresh >>

ListAdds ==
  { [ locationId |-> NULL, entity |-> MkEntity("b", MkMeta(n, ns, NULL, NoGen)) ] :
      n \in {ListNames[i] : i \in DOMAIN ListNames},
      ns \in {ListNamespaces[i] : i \in DOMAIN ListNamespaces} }

NextList ==
  \/ \E request \in ListAdds, etag \in EtagsOfAdd(Writer) :
       addEntity(Writer, request, etag)
  \/ selectWritten(Writer)
  \/ commit(Writer)
  \/ entitiesQuery

SpecList == Init /\ [][NextList]_vars

\* ======================================================= claims on Spec
\* the committed row with this id, before and after a step
RowOf(rows, id) == CHOOSE r \in rows : r.id = id
HasId(rows, id) == \E r \in rows : r.id = id
\* p's transaction commits in this step
Commits(p) == ctx[p].pc = "commit" /\ ctx'[p].pc = "idle"

\* C1: a row's generation never decreases and never skips a value, and the
\* commit of every successful updateEntity, whichever strategy it took,
\* leaves the row's stored generation at its previous stored value plus 1.
C1_GenerationStep ==
  /\ \A r \in entities :
       /\ HasId(entities', r.id)
       /\ RowOf(entities', r.id).generation
            \in {r.generation, r.generation + 1}
  /\ \A p \in Procs :
       Commits(p) /\ ctx[p].op = "updateEntity" =>
         /\ HasId(entities, ctx[p].row.id)
         /\ HasId(entities', ctx[p].row.id)
         /\ RowOf(entities', ctx[p].row.id).generation
              = RowOf(entities, ctx[p].row.id).generation + 1
C1_GenerationPlusOne == [][C1_GenerationStep]_vars

\* an updateEntity has returned successfully, and a row that updates have
\* rewritten is stored at MaxGen
C1_Witness ==
  /\ last.op = "updateEntity" /\ last.status = "ok"
  /\ \E r \in entities : r.generation = MaxGen /\ r.kind = "new"

\* the request carries a generation, addresses a stored row by uid, or by
\* name when it has no uid, and that row's stored generation is another one
C2_Mismatch(request) ==
  LET m == MetaOf(request.entity)
  IN  /\ Has(m, "generation")
      /\ \/ Has(m, "uid")
            /\ \E r \in entities : r.id = m.uid /\ r.generation # m.generation
         \/ ~Has(m, "uid") /\ Has(m, "name")
            /\ \E r \in ByName(entities, m) : r.generation # m.generation

\* C2: an updateEntity call that carries a generation other than the stored
\* one, addressed by uid+generation or by name+generation, fails with
\* Conflict and leaves the stored row unchanged.
C2_MismatchConflicts ==
  [][ \A p \in Clients, request \in UpdateRequests :
      \A etag \in EtagsOfUpdate(p, request) :
        /\ ctx[p].pc = "idle" /\ C2_Mismatch(request)
        /\ updateEntity(p, request, etag)
        => /\ last'.status = "Conflict"
           /\ ctx'[p].pc = "idle"
           /\ entities' = entities ]_vars

\* C4: every successful addEntity stores a row with generation 1 under an
\* id the uuid generator made (non-empty, no other row's), whatever uid or
\* generation the request carried, and its response reports that uid and
\* generation 1; no two stored rows share a uid.
C4_AddStep ==
  /\ \A p \in Clients, request \in AddRequests :
     \A etag \in EtagsOfAdd(p) :
       /\ uuidCount' # uuidCount /\ ctx[p].pc = "idle"
       /\ ctx'[p].pc = "readBack"
       /\ addEntity(p, request, etag)
       =>
         LET row == ctx'[p].row
         IN  /\ row.generation = 1
             /\ row.id \notin {"", NULL}
             /\ row.id = UidPool[uuidCount']
             /\ ~HasId(entities, row.id)
             /\ \A q \in Procs \ {p} : ctx[q].row.id # row.id
  /\ \A p \in Clients :
       /\ ctx[p].pc = "readBack" /\ ctx[p].op = "addEntity"
       /\ selectWritten(p)
       =>
         LET md == ctx'[p].response.entity.metadata
         IN  /\ ctx'[p].pc = "commit"
             /\ ctx'[p].row = ctx[p].row
             /\ md.uid = ctx[p].row.id
             /\ md.generation = 1
  /\ \A p \in Procs :
       Commits(p) /\ ctx[p].op = "addEntity" =>
         /\ ctx[p].row \in entities'
         /\ ctx[p].row.generation = 1
C4_UniqueUid == \A r1, r2 \in entities : r1.id = r2.id => r1 = r2
C4_AddAssignsUidAndGeneration == [][C4_AddStep]_vars /\ []C4_UniqueUid

\* an addEntity whose request carried another row's uid and a generation
\* has committed, and two rows are stored
C4_Witness ==
  /\ last.op = "addEntity" /\ last.status = "ok"
  /\ Cardinality(entities) = 2
  /\ \E r \in entities : r.generation = 1 /\ r.id = UidPool[2]

\* C5: an addEntity for a (name, namespace) pair that is stored already,
\* the null namespace included, fails with Conflict and adds no row; an
\* addEntity for a pair that no row and no open transaction holds goes
\* through; no two stored rows share a pair.
C5_RequestKey(request) ==
  << OrNull(MetaOf(request.entity), "name"),
     OrNull(MetaOf(request.entity), "namespace") >>
C5_AddStep ==
  \A p \in Clients, request \in AddRequests :
   \A etag \in EtagsOfAdd(p) :
    /\ uuidCount' # uuidCount /\ ctx[p].pc = "idle"
    /\ ctx'[p].pc = "readBack" \/ last'.op = "addEntity"
    /\ addEntity(p, request, etag)
    =>
      IF \E r \in entities : KeyOf(r) = C5_RequestKey(request)
      THEN /\ last'.op = "addEntity" /\ last'.status = "Conflict"
           /\ ctx'[p].pc = "idle"
           /\ entities' = entities
      ELSE /\ ctx'[p].pc = "readBack"
           /\ KeyOf(ctx'[p].row) = C5_RequestKey(request)
C5_UniquePair == \A r1, r2 \in entities : KeyOf(r1) = KeyOf(r2) => r1 = r2
C5_NamePairUnique == [][C5_AddStep]_vars /\ []C5_UniquePair

\* a second addEntity for a pair stored under the null namespace has failed
\* with Conflict, and the pair still has its one row
C5_Witness ==
  /\ last.op = "addEntity" /\ last.status = "Conflict"
  /\ uuidCount = 2
  /\ \E r \in entities : r.namespace = NULL /\ entities = {r}

\* =================================================== claims on SpecRace
\* the generation the i-th returned call carried
C3_Carried(i) == calls[i].request.entity.metadata.generation

\* C3: when two callers have read the entity at the same generation g and
\* each has sent its update carrying g, by uid or by name, exactly one call
\* succeeded and the other failed with Conflict, and the row is stored at
\* generation g + 1 with the winner's content.
C3_NoLostUpdate ==
  Len(calls) = 2 /\ C3_Carried(1) = C3_Carried(2) =>
    \E w, l \in 1..2 :
       /\ w # l
       /\ calls[w].status = "ok"
       /\ calls[l].status = "Conflict"
       /\ entities = {calls[w].row}
       /\ calls[w].row.generation = C3_Carried(w) + 1
       /\ calls[w].row.kind = calls[w].request.entity.kind

\* both callers carried the same generation; the one addressing by uid
\* won and the one addressing by name got Conflict
C3_Witness ==
  /\ Len(calls) = 2 /\ C3_Carried(1) = C3_Carried(2)
  /\ calls[1].status = "ok" /\ calls[1].strategy = 1
  /\ calls[2].status = "Conflict" /\ calls[2].strategy = 3
  /\ calls[1].request.entity.kind # calls[2].request.entity.kind

\* ====================================== claims on SpecLoc and SpecLocConc
\* C6: an addLocation of a target that has a row goes for that row without
\* inserting, and returns it and changes nothing; in particular an
\* addLocation that returns after another of the same target has returned
\* returns the row the other returned; the row returned is always stored;
\* an INSERT for a target that has a row by then fails and adds nothing;
\* and a target never has two rows.
C6_AddStep ==
  /\ \A p \in Clients, l \in LocInputs :
       addLocation(p, l) /\ TargetTaken(locations, l.target) =>
         /\ ctx'[p].pc = "locCommit"
         /\ ctx'[p].row = NoLoc
         /\ ctx'[p].response \in locations
         /\ ctx'[p].response.target = l.target
  /\ \A p \in Clients :
       addLocationInsert(p) /\ TargetTaken(locations, ctx[p].request.target) =>
         /\ lastLoc'.status = "Error"
         /\ ctx'[p].pc = "idle"
         /\ locations' = locations
  /\ \A p \in Clients :
       addLocationCommit(p) =>
         /\ lastLoc'.status = "ok"
         /\ lastLoc'.row \in locations'
         /\ lastLoc'.row.target = lastLoc'.input.target
         /\ \A r \in locations :
              r.target = lastLoc'.input.target =>
                lastLoc'.row = r /\ locations' = locations
         /\ lastLoc.op = "addLocation" /\ lastLoc.status = "ok"
              /\ lastLoc.input.target = lastLoc'.input.target =>
                lastLoc'.row = lastLoc.row
C6_OneRowPerTarget ==
  \A r1, r2 \in locations : r1.target = r2.target => r1 = r2
C6_AddLocationIdempotent == [][C6_AddStep]_vars /\ []C6_OneRowPerTarget

\* a second addLocation of a target, with another type, has returned the
\* row of the first, which is the one row of the table, while the other
\* caller has inserted a row for another target and not committed it
C6_Witness ==
  /\ lastLoc.op = "addLocation" /\ lastLoc.status = "ok"
  /\ lastLoc.row.type # lastLoc.input.type
  /\ lastLoc.row.target = lastLoc.input.target
  /\ locations = {lastLoc.row}
  /\ \E p \in Clients : ctx[p].pc = "locCommit" /\ ctx[p].row # NoLoc

\* C7: right after addLocation, locations() holds the returned row and
\* location(id) returns it; right after a successful removeLocation(id),
\* locations() holds no row with that id and location(id) is NotFound;
\* removeLocation of an id that is not stored is NotFound and changes nothing.
C7_Step ==
  /\ addLocationCommit(Writer) =>
         /\ lastLoc'.row \in locationsResult(locations')
         /\ locationResult(locations', lastLoc'.row.id)
              = [ status |-> "ok", row |-> lastLoc'.row ]
  /\ \A id \in LocIds :
       removeLocation(id) =>
         IF \E r \in locations : r.id = id
         THEN /\ lastLoc'.status = "ok"
              /\ \A r \in locationsResult(locations') : r.id # id
              /\ locationResult(locations', id).status = "NotFound"
              /\ \A r \in locations : r.id # id => r \in locations'
         ELSE /\ lastLoc'.status = "NotFound"
              /\ locations' = locations
  /\ \A id \in LocIds :
       location(id) =>
         IF \E r \in locations : r.id = id
         THEN lastLoc'.status = "ok" /\ lastLoc'.row \in locations
              /\ lastLoc'.row.id = id
         ELSE lastLoc'.status = "NotFound"
C7_LocationLifecycle == [][C7_Step]_vars

\* location(id) is NotFound for an id that was added and then removed,
\* while another location is still stored
C7_Witness ==
  /\ lastLoc.op = "location" /\ lastLoc.status = "NotFound"
  /\ lastLoc.id = LocIdPool[1]
  /\ locUuidCount = 2
  /\ Cardinality(locations) = 1

\* ================================================== claims on SpecMerge
Annot(e) ==
  IF Has(MetaOf(e), "annotations") THEN MetaOf(e).annotations ELSE EmptyObj
SameField(x, y, k) == (Has(x, k) <=> Has(y, k)) /\ (Has(x, k) => x[k] = y[k])

\* C8: the result of mergeEntities(base, incoming) has the uid and the
\* generation of base; its annotations have every key of base and of
\* incoming, with the value of incoming where incoming has the key and the
\* value of base otherwise; apiVersion, kind, spec, name and namespace are
\* those of incoming.
C8_MergeResult ==
  fn.op = "mergeEntities" /\ fn.done =>
    LET base == fn.base
        incoming == fn.added
        result == fn.result
    IN  /\ SameField(MetaOf(result), MetaOf(base), "uid")
        /\ SameField(MetaOf(result), MetaOf(base), "generation")
        /\ Has(MetaOf(result), "uid") /\ Has(MetaOf(result), "generation")
        /\ DOMAIN Annot(result) = DOMAIN Annot(base) \cup DOMAIN Annot(incoming)
        /\ \A k \in DOMAIN Annot(result) :
             Annot(result)[k] = IF k \in DOMAIN Annot(incoming)
                                THEN Annot(incoming)[k]
                                ELSE Annot(base)[k]
        /\ \A k \in {"apiVersion", "kind", "spec"} :
             SameField(result, incoming, k)
        /\ \A k \in {"name", "namespace"} :
             SameField(MetaOf(result), MetaOf(incoming), k)

\* a merge of a base that has annotations g and n with an incoming entity
\* that has annotations g and p and a uid and a generation of its own
C8_Witness ==
  /\ fn.op = "mergeEntities" /\ fn.done
  /\ DOMAIN Annot(fn.base) = {"g", "n"}
  /\ DOMAIN Annot(fn.added) = {"g", "p"}
  /\ Has(MetaOf(fn.added), "uid") /\ Has(MetaOf(fn.added), "generation")
  /\ fn.added.metadata.uid # fn.base.metadata.uid
  /\ fn.added.metadata.generation # fn.base.metadata.generation
  /\ fn.result.metadata.annotations = [g |-> "x", n |-> "o", p |-> "q"]

\* ================================================ claims on SpecRefresh
\* the log events of one location, in the order they were appended
EventsOf(id) ==
  LET OfLocation(e) == e.location_id = id
  IN  SelectSeq(log, OfLocation)
Event(status, id, entityName, message) ==
  [ status |-> status, location_id |-> id, entity_name |-> entityName,
    message |-> message ]
IsData(item) == item.type = "data"
\* locations of the run whose processing is over
Processed ==
  { i \in 1..Len(refresh.read) : refresh.pc \in {"read", "done"}
                                   \/ i < refresh.li }
NameOf(item) == OrNull(MetaOf(parse(item.data).descriptor), "name")
\* one SUCCESS event per data item under the name of its entity, and then
\* the SUCCESS event of the location
C9_Expected(id, items) ==
  LET data == SelectSeq(items, IsData)
  IN  [j \in 1..Len(data) |-> Event(SUCCESS, id, NameOf(data[j]), NULL)]
        \o << Event(SUCCESS, id, NULL, NULL) >>
C9_AllParse(items) ==
  \A j \in 1..Len(items) : IsData(items[j]) => parse(items[j].data).ok

\* C9: a location whose reader returned items every data item of
\* which parses has, after its processing, exactly these log events: one
\* SUCCESS per data item under the entity's name, one SUCCESS without a
\* name, nothing for error items, no FAIL.
C9_AllParsedLogsSuccess ==
  \A i \in Processed :
     ~refresh.read[i].threw /\ C9_AllParse(refresh.read[i].items) =>
       EventsOf(refresh.locations[i].id)
         = C9_Expected(refresh.locations[i].id, refresh.read[i].items)

\* the log events the items of a location bring about in a run that has
\* the store to itself, by what they are and by the database of the run
ItemEvents(id, item) ==
  IF ~IsData(item) THEN << >>
  ELSE LET parsed == parse(item.data)
       IN  IF ~parsed.ok
           THEN << Event(FAIL, id, parsed.entityName, parsed.message) >>
           ELSE IF refresh.database = "Database"
           THEN << Event(FAIL, id, NULL,
                         "database.addOrUpdateEntity is not a function") >>
           ELSE IF NameOf(item) = NULL
           THEN << Event(FAIL, id, NULL,
                         "Entities without names are not yet supported") >>
           ELSE << Event(SUCCESS, id, NameOf(item), NULL) >>
RECURSIVE ItemsEvents(_, _)
ItemsEvents(id, items) ==
  IF items = << >> THEN << >>
  ELSE ItemEvents(id, Head(items)) \o ItemsEvents(id, Tail(items))

\* C10: a location whose reader threw has exactly one log event: FAIL, no
\* entity name, the message of the error. When the run in which that
\* happened is over, every location of the run has been processed, and
\* each of the others has the log events its own items bring about.
C10_ReaderFailureIsolated ==
  /\ \A i \in Processed :
       refresh.read[i].threw =>
         EventsOf(refresh.locations[i].id)
           = << Event(FAIL, refresh.locations[i].id, NULL,
                      refresh.read[i].message) >>
  /\ refresh.pc = "done"
       /\ (\E i \in 1..Len(refresh.read) : refresh.read[i].threw) =>
     \A i \in 1..Len(refresh.locations) :
        /\ i <= Len(refresh.read)
        /\ ~refresh.read[i].threw =>
             EventsOf(refresh.locations[i].id)
               = ItemsEvents(refresh.locations[i].id, refresh.read[i].items)
                   \o << Event(SUCCESS, refresh.locations[i].id, NULL, NULL) >>

\* the run is over; the reader threw for the first location, and the
\* second location had an entity persisted and a document fail to parse
C10_Witness ==
  /\ refresh.pc = "done"
  /\ Len(refresh.read) = 2
  /\ refresh.read[1].threw
  /\ ~refresh.read[2].threw
  /\ \E j \in 1..Len(refresh.read[2].items) :
       refresh.read[2].items[j].result = "persisted"
  /\ \E j \in 1..Len(refresh.read[2].items) :
       refresh.read[2].items[j].result = "parseFailed"
  /\ Len(log) = 4

\* C11: a data item the parser fails on brings exactly one FAIL event, with
\* the message of the failure and the entity name of the parser error when
\* it has one; the items after it bring their own events, in order; and the
\* SUCCESS event of the location comes after the event of the last item.
C11_HasParseFailure(items) ==
  \E j \in 1..Len(items) : items[j].result = "parseFailed"
C11_ParseFailureLogged ==
  /\ \A i \in Processed :
       C11_HasParseFailure(refresh.read[i].items) =>
         EventsOf(refresh.locations[i].id)
           = ItemsEvents(refresh.locations[i].id, refresh.read[i].items)
               \o << Event(SUCCESS, refresh.locations[i].id, NULL, NULL) >>
  /\ refresh.pc = "items"
       /\ C11_HasParseFailure(refresh.read[refresh.li].items) =>
     EventsOf(CurrentLocation.id)
       = ItemsEvents(CurrentLocation.id, refresh.read[refresh.li].items)

\* the run is over a location whose first document failed to parse with an
\* entity name in the error and whose second document was persisted
C11_Witness ==
  /\ refresh.pc = "done"
  /\ \E i \in 1..Len(refresh.read) :
       LET items == refresh.read[i].items
           id == refresh.locations[i].id
       IN  /\ Len(items) = 2
           /\ items[1].result = "parseFailed"
           /\ items[2].result = "persisted"
           /\ EventsOf(id) = << Event(FAIL, id, "c", "malformed"),
                                Event(SUCCESS, id, "c", NULL),
                                Event(SUCCESS, id, NULL, NULL) >>

\* the event that closes the processing of location i of the run
LocationEvent(i) ==
  IF refresh.read[i].threw
  THEN Event(FAIL, refresh.locations[i].id, NULL, refresh.read[i].message)
  ELSE Event(SUCCESS, refresh.locations[i].id, NULL, NULL)
AllProcessed ==
  /\ refresh.pc = "done"
  /\ Len(refresh.read) = Len(refresh.locations)
  /\ \A i \in 1..Len(refresh.locations) :
       LET events == EventsOf(refresh.locations[i].id)
       IN  /\ events # << >>
           /\ events[Len(events)] = LocationEvent(i)

\* C12: while locations() and the appends to the log succeed, a refresh run
\* that has started comes to its end without an error of its own, whatever
\* the reader, the parser and the entity store do to it (the reader throws,
\* error items, parser failures, conflicts with a concurrent writer), and
\* by then every location of the run has its location-level log event.
C12_RefreshTerminates == (refresh.pc # "idle") ~> AllProcessed
C12_Witness ==
  /\ AllProcessed
  /\ Len(refresh.read) = 2
  /\ \E i \in 1..2 : refresh.read[i].threw
  /\ \E i \in 1..2 :
       LET items == refresh.read[i].items
       IN  /\ Len(items) = MaxItems
           /\ \E j \in 1..Len(items) : items[j].result = "persistFailed"
           /\ \E j \in 1..Len(items) :
                items[j].result \in {"parseFailed", "skipped"}

\* C13: when persisting a parsed entity fails during the refresh, the log
\* has a FAIL event of that location that carries the name of the entity.
C13_PersistFailureNamed ==
  \A i \in 1..Len(refresh.read) :
     \A j \in 1..Len(refresh.read[i].items) :
        LET item == refresh.read[i].items[j]
        IN  item.result = "persistFailed" /\ NameOf(item) # NULL =>
              \E k \in 1..Len(log) :
                 /\ log[k].status = FAIL
                 /\ log[k].location_id = refresh.locations[i].id
                 /\ log[k].entity_name = NameOf(item)

\* C14: whatever the strategy, the response of an updateEntity that has
\* succeeded is the row as the update left it: its metadata.uid is the id
\* of the row and its metadata.generation the generation now stored.
C14_ResponseIsStoredRow ==
  \A p \in Clients :
     ctx[p].pc = "commit" /\ ctx[p].op = "updateEntity" =>
       LET md == MetaOf(ctx[p].response.entity)
       IN  /\ Has(md, "uid") /\ md.uid = ctx[p].row.id
           /\ Has(md, "generation") /\ md.generation = ctx[p].row.generation

\* C15: an entity turned into a row by entityRequestToDb and back by
\* entityDbToResponse has its apiVersion, kind, metadata.name,
\* metadata.namespace and spec unchanged, and its metadata.uid and
\* metadata.generation are the id and generation columns of the row,
\* whatever the metadata of the input held for them.
C15_RoundTrip ==
  fn.op = "entityRequestToDb" /\ fn.done =>
    LET given == fn.request.entity
        back == fn.result.entity
    IN  /\ back.apiVersion = given.apiVersion
        /\ back.kind = given.kind
        /\ SameField(MetaOf(given), MetaOf(back), "name")
        /\ SameField(MetaOf(given), MetaOf(back), "namespace")
        /\ SameField(given, back, "spec")
        /\ back.metadata.uid = fn.row.id
        /\ back.metadata.generation = fn.row.generation
C15_Witness ==
  /\ fn.op = "entityRequestToDb" /\ fn.done
  /\ Has(MetaOf(fn.request.entity), "uid")
  /\ Has(MetaOf(fn.request.entity), "generation")
  /\ Has(MetaOf(fn.request.entity), "namespace")
  /\ fn.request.entity.metadata.uid = UidPool[1]
  /\ fn.request.entity.metadata.generation = MaxGen
  /\ fn.result.entity.metadata.uid = UidPool[2]
  /\ fn.result.entity.metadata.generation = 2
  /\ fn.result.entity.metadata.namespace = "d"
  /\ Has(fn.result.entity, "spec")

\* C19: for every row, also one whose metadata text holds uid, etag or
\* generation keys, the metadata.uid, metadata.etag and metadata.generation
\* that entityDbToResponse returns are the id, etag and generation columns
\* of the row.
C19_ColumnsWin ==
  fn.op = "entityDbToResponse" /\ fn.done =>
    LET md == fn.result.entity.metadata
    IN  /\ md.uid = fn.row.id
        /\ md.etag = fn.row.etag
        /\ md.generation = fn.row.generation

\* C16: entities() returns every stored entity, ordered by namespace and
\* then by name, both ascending: of two entities of one namespace the one
\* with the smaller name comes first, whatever the order they were added.
C16_Ordered(result) ==
  \A i, j \in 1..Len(result) :
     LET mi == result[i].entity.metadata
         mj == result[j].entity.metadata
     IN  i < j =>
           \/ Rank(ListNamespaces, OrNull(mi, "namespace"))
                < Rank(ListNamespaces, OrNull(mj, "namespace"))
           \/ /\ OrNull(mi, "namespace") = OrNull(mj, "namespace")
              /\ Rank(ListNames, mi.name) < Rank(ListNames, mj.name)
C16_OrderedByNamespaceAndName ==
  [][ fn' # fn /\ fn'.op = "entities" =>
        /\ { fn'.result[i] : i \in 1..Len(fn'.result) }
             = { entityDbToResponse(r) : r \in entities }
        /\ Len(fn'.result) = Cardinality(entities)
        /\ C16_Ordered(fn'.result) ]_vars

\* C17: a name-only updateEntity does not overwrite what another writer
\* committed between its read and its write: when its conditional UPDATE
\* runs and the row it read is stored with another generation by then, the
\* call fails with Conflict and the stored rows stay as the other writer
\* left them.
C17_ChangedSinceRead(p) ==
  \A r \in entities :
     r.id = ctx[p].old.id => r.generation # ctx[p].old.generation
C17_NameOnlyKeepsOthersWrite ==
  [][ \A p \in Clients :
        /\ ctx[p].pc = "write" /\ ctx'[p].pc # "write"
        /\ C17_ChangedSinceRead(p)
        => /\ last'.proc = p /\ last'.status = "Conflict"
           /\ ctx'[p].pc = "idle"
           /\ entities' = entities ]_vars
C17_Witness ==
  /\ Len(calls) = 2
  /\ calls[1].status = "ok" /\ calls[1].strategy = 2
  /\ calls[2].status = "Conflict" /\ calls[2].strategy = 4
  /\ calls[2].proc # calls[1].proc
  /\ calls[2].request.entity.metadata.name = calls[1].row.name
  /\ OrNull(calls[2].request.entity.metadata, "namespace")
       = calls[1].row.namespace
  /\ entities = {calls[1].row}
  /\ calls[1].row.kind = "other"

\* C18: mergeEntities leaves its arguments alone: when it has returned,
\* base (its metadata.annotations included) and incoming are what they were
\* before the call.
C18_MergeIsPure ==
  fn.op = "mergeEntities" /\ fn.done =>
    /\ fn.baseAfter = fn.base
    /\ fn.addedAfter = fn.added

\* the data items of a location that have had their outcome
C20_SettledData(items) ==
  LET Settles(item) == IsData(item) /\ item.result # "pending"
  IN  SelectSeq(items, Settles)
C20_Nameless(events) ==
  LET NoName(e) == e.entity_name = NULL
  IN  SelectSeq(events, NoName)

\* C20 as stated: every location of a run gets exactly one log event
\* without an entity name, SUCCESS when the iteration over the reader
\* output completed and FAIL when the reader threw, and it comes after the
\* per-entity events of the location.
C20_OneNamelessEvent ==
  \A i \in Processed :
     LET events == EventsOf(refresh.locations[i].id)
     IN  /\ C20_Nameless(events) = << LocationEvent(i) >>
         /\ events[Len(events)] = LocationEvent(i)

\* C20, amended: the log events of a location of a run are one event for
\* each data item read, and after them exactly one event of the location
\* itself, with no entity name: SUCCESS when the iteration completed, FAIL
\* with the error's message when the reader threw (then it is the only
\* one). No SUCCESS event before it is without an entity name, and none
\* of a location whose processing is under way. A FAIL event of an item can
\* be without an entity name.
C20_OneLocationEvent ==
  /\ \A i \in Processed :
       LET events == EventsOf(refresh.locations[i].id)
           data == C20_SettledData(refresh.read[i].items)
       IN  /\ Len(events) = Len(data) + 1
           /\ events[Len(events)] = LocationEvent(i)
           /\ refresh.read[i].threw => Len(events) = 1
           /\ \A k \in 1..Len(data) :
                events[k].status = SUCCESS => events[k].entity_name # NULL
  /\ \A i \in 1..Len(refresh.locations) :
       i \notin Processed =>
         LET events == EventsOf(refresh.locations[i].id)
             data == IF i <= Len(refresh.read)
                     THEN C20_SettledData(refresh.read[i].items) ELSE << >>
         IN  /\ Len(events) = Len(data)
             /\ \A k \in 1..Len(events) :
                  events[k].status = SUCCESS => events[k].entity_name # NULL
C20_Witness ==
  /\ refresh.pc = "done"
  /\ Len(refresh.read) = 2
  /\ refresh.read[1].threw
  /\ LET items == refresh.read[2].items
         events == EventsOf(refresh.locations[2].id)
     IN  /\ Len(items) = 2
         /\ items[1].result = "parseFailed"
         /\ items[2].result = "persistFailed"
         /\ Len(events) = 3
         /\ Len(C20_Nameless(events)) = 3

\* C21: when two add-or-update transactions for one (name, namespace) have
\* both found the entity absent, at most one of their addEntity calls
\* commits; when both have returned, one has succeeded and the other has
\* failed with Conflict, and the store holds exactly one row for the pair,
\* at generation 1.
C21_Adds ==
  { i \in 1..Len(calls) : calls[i].op = "addEntity" }
C21_SameKey(i, j) ==
  /\ calls[i].request.entity.metadata.name
       = calls[j].request.entity.metadata.name
  /\ OrNull(calls[i].request.entity.metadata, "namespace")
       = OrNull(calls[j].request.entity.metadata, "namespace")
C21_OneAddWins ==
  \A i, j \in C21_Adds :
     i < j /\ C21_SameKey(i, j) =>
       LET m == calls[i].request.entity.metadata
           rows == ByName(entities, m)
       IN  /\ { calls[i].status, calls[j].status } = { "ok", "Conflict" }
           /\ Cardinality(rows) = 1
           /\ \A r \in rows : r.generation = 1
C21_Witness ==
  /\ Len(calls) = 2
  /\ C21_Adds = {1, 2}
  /\ C21_SameKey(1, 2)
  /\ calls[1].proc # calls[2].proc
  /\ calls[1].status = "ok"
  /\ calls[2].status = "Conflict"
  /\ ~Has(calls[1].request.entity.metadata, "namespace")

\* C22: the commit of a successful updateEntity leaves the id of the row it
\* targets as it was and changes no other row. A name strategy (3, 4) also
\* leaves the name and the namespace of the row as they were; a uid
\* strategy (1, 2) makes them those of the request.
C22_UpdateFrame ==
  [][ \A p \in Clients :
        Commits(p) /\ ctx[p].op = "updateEntity" =>
          LET c == ctx[p]
              id == c.row.id
              m == MetaOf(c.request.entity)
          IN  /\ HasId(entities, id) /\ HasId(entities', id)
              /\ { r.id : r \in entities' } = { r.id : r \in entities }
              /\ \A r \in entities : r.id # id => r \in entities'
              /\ c.strategy \in {3, 4} =>
                   /\ RowOf(entities, id).name = m.name
                   /\ RowOf(entities, id).namespace = OrNull(m, "namespace")
                   /\ RowOf(entities', id).name = RowOf(entities, id).name
                   /\ RowOf(entities', id).namespace
                        = RowOf(entities, id).namespace
              /\ c.strategy \in {1, 2} =>
                   /\ id = m.uid
                   /\ RowOf(entities', id).name = OrNull(m, "name")
                   /\ RowOf(entities', id).namespace = OrNull(m, "namespace")
    ]_vars
C22_Witness ==
  /\ Len(calls) = 2
  /\ calls[1].status = "ok" /\ calls[1].strategy \in {1, 2}
  /\ calls[1].row.name = "z"
  /\ calls[2].status = "ok" /\ calls[2].strategy \in {3, 4}
  /\ calls[2].row.id = UidPool[2]
  /\ { r.id : r \in entities } = { UidPool[1], UidPool[2] }
  /\ RowOf(entities, UidPool[1]).name = "z"
  /\ RowOf(entities, UidPool[2]).name = "c"

====
